---- MODULE Spec2Model ----
(***************************************************************************)
(* Proof-of-Authority sealing and header validation of custom-poa-node:    *)
(* PoaChainSpec (chainspec.rs), PoaConsensus (consensus.rs), SignerManager *)
(* and BlockSealer (signer.rs).                                            *)
(*                                                                         *)
(* Bytes are naturals below 256 and byte strings are sequences of them.    *)
(* u64 values are kept in a word of U64Bits bits, so that the wrap-around  *)
(* and the overflow checks of the arithmetic are part of the model.        *)
(* keccak256 is a digest into HashSpace values, and secp256k1 is replaced  *)
(* by ECDSA with public-key recovery over the additive group of integers   *)
(* modulo the prime CurveOrder (generator 1), which keeps what the code    *)
(* relies on: a signature is (r, s, v), it is bound to the signed hash,    *)
(* and recovery from a well-formed signature and another hash yields       *)
(* another key or fails.                                                   *)
(***************************************************************************)
EXTENDS Integers, Sequences, FiniteSets, TLC

\* consensus.rs:23
EXTRA_VANITY_LENGTH == 32
\* consensus.rs:25, signer.rs:120, signer.rs:149, signer.rs:166
EXTRA_SEAL_LENGTH == 65
\* consensus.rs:27
ADDRESS_LENGTH == 20

\* Width of the modelled u64 word, and of usize on the 64-bit targets.
U64Bits == 12
U64Max == 2^U64Bits - 1
UsizeBits == U64Bits

\* Number of bits of the modelled keccak256 digest.
HashBits == 8
HashSpace == 2^HashBits

\* Order of the signature group (a prime), and the half of it that are
\* x-coordinates of points.
CurveOrder == 13
HalfOrder == (CurveOrder - 1) \div 2

----------------------------------------------------------------------------
(* Option and Result values *)

None == <<>>
Some(x) == <<x>>

Ok(v) == [ok |-> TRUE, val |-> v, err |-> "none"]
Err(e) == [ok |-> FALSE, val |-> <<>>, err |-> e]
\* A Rust panic: the call does not return.
Panic == Err("panic")
\* An error value that carries data, as NoSignerForAddress(address) does.
ErrOf(e, v) == [ok |-> FALSE, val |-> v, err |-> e]

----------------------------------------------------------------------------
(* Bytes *)

Zeros(n) == [i \in 1..n |-> 0]

\* U256::to_be_bytes::<32>() of a value below 2^24.
to_be_bytes32(x) ==
    [i \in 1..32 |-> IF 32 - i >= 3 THEN 0 ELSE (x \div (256 ^ (32 - i))) % 256]

\* The scalar held by 32 big-endian bytes; every value of CurveOrder or more
\* is out of range for the curve and is reported as CurveOrder.
from_be_bytes32(b) ==
    IF \A i \in 1..31 : b[i] = 0
    THEN (IF b[32] < CurveOrder THEN b[32] ELSE CurveOrder)
    ELSE CurveOrder

\* The digest is a sum of the bytes weighted by their place (odd weights, so
\* that a change of one byte changes the digest), evaluated by halves.
RECURSIVE Digest(_, _, _)
Digest(bytes, lo, hi) ==
    IF lo > hi THEN 0
    ELSE IF lo = hi THEN ((bytes[lo] + 7) * (2 * lo + 1)) % HashSpace
    ELSE LET mid == (lo + hi) \div 2
         IN (Digest(bytes, lo, mid) + Digest(bytes, mid + 1, hi)) % HashSpace

\* keccak256 of a byte string.
keccak256(bytes) == Digest(bytes, 1, Len(bytes))

----------------------------------------------------------------------------
(* Header: the fields of alloy_consensus::Header the node reads *)

\* alloy_rlp::encode(&header): the fields in order, the byte string
\* extra_data behind its length.
rlp_encode(h) ==
    <<h.parent_hash, h.difficulty, h.number, h.gas_limit, h.timestamp,
      Len(h.extra_data)>> \o h.extra_data

\* Header::hash_slow: the hash of the whole header, seal included.
hash_slow(h) == keccak256(rlp_encode(h))

\* SealedHeader::seal_slow: the header with its hash, computed once.
seal_slow(h) == [header |-> h, hash |-> hash_slow(h)]

----------------------------------------------------------------------------
(* Keys, addresses and signatures *)

\* Multiplicative inverse modulo CurveOrder of x in 1..CurveOrder-1.
Inv(x) == CHOOSE y \in 1..(CurveOrder - 1) : (x * y) % CurveOrder = 1

\* PrivateKeySigner::address: the address of the public key of a private key.
public_key(k) == k
address_of(q) == [i \in 1..ADDRESS_LENGTH |-> (q * 17 + i) % 256]
address(k) == address_of(public_key(k))

\* The scalar signed for a 32-byte hash.
HashScalar(hash) == hash % CurveOrder

\* The x-coordinate and the y-parity of the group element n.
XCoord(n) == IF n > HalfOrder THEN CurveOrder - n ELSE n
YParity(n) == n > HalfOrder

SigS(k, z, n) == (Inv(n) * (z + XCoord(n) * k)) % CurveOrder

\* The deterministic nonce: the first candidate that gives a non-zero s.
Nonce(k, z) ==
    LET cand(j) == ((k + z + j) % (CurveOrder - 1)) + 1
        first == CHOOSE j \in 0..(CurveOrder - 2) :
                    /\ SigS(k, z, cand(j)) # 0
                    /\ \A i \in 0..(j - 1) : SigS(k, z, cand(i)) = 0
    IN cand(first)

\* PrivateKeySigner::sign_hash: the signature (r, s, v) of key k on hash.
ecdsa_sign(k, hash) ==
    LET z == HashScalar(hash)
        n == Nonce(k, z)
    IN [r |-> XCoord(n), s |-> SigS(k, z, n), v |-> YParity(n)]

\* Signature::recover_address_from_prehash: fails on a scalar out of range,
\* on an r that is no x-coordinate and on the point at infinity.
recover_address_from_prehash(sig, hash) ==
    IF ~(sig.r \in 1..(CurveOrder - 1) /\ sig.s \in 1..(CurveOrder - 1))
    THEN None
    ELSE IF sig.r > HalfOrder THEN None
    ELSE LET R == IF sig.v THEN CurveOrder - sig.r ELSE sig.r
             z == HashScalar(hash)
             q == (Inv(sig.r) * (sig.s * R + CurveOrder - z)) % CurveOrder
         IN IF q = 0 THEN None ELSE Some(address_of(q))

\* alloy_primitives::normalize_v: the parity of a v byte, None if invalid.
normalize_v(v) ==
    IF v \in {0, 1} THEN Some(v = 1)
    ELSE IF v \in {27, 28} THEN Some(v = 28)
    ELSE IF v >= 35 THEN Some((v - 35) % 2 = 1)
    ELSE None

\* Signature::try_from(&[u8]): 65 bytes r || s || v.
signature_try_from(bytes) ==
    IF Len(bytes) # 65 THEN None
    ELSE IF normalize_v(bytes[65]) = None THEN None
    ELSE Some([r |-> from_be_bytes32(SubSeq(bytes, 1, 32)),
               s |-> from_be_bytes32(SubSeq(bytes, 33, 64)),
               v |-> normalize_v(bytes[65])[1]])

----------------------------------------------------------------------------
(* PoaChainSpec (chainspec.rs) *)

\* `block_number as usize`.
as_usize(n) == n % (2 ^ UsizeBits)

signers(chain_spec) == chain_spec.signers
block_period(chain_spec) == chain_spec.period
epoch(chain_spec) == chain_spec.epoch

is_authorized_signer(chain_spec, addr) ==
    \E i \in 1..Len(chain_spec.signers) : chain_spec.signers[i] = addr

\* Mutation of expected_signer: the turn is shifted by one block.
expected_signer_shifted(chain_spec, block_number) ==
    IF Len(chain_spec.signers) = 0 THEN None
    ELSE LET index == (as_usize(block_number) + 1) % Len(chain_spec.signers)
         IN Some(chain_spec.signers[index + 1])

\* Mutation of expected_signer: the remainder is taken by len + 1.
expected_signer_wide(chain_spec, block_number) ==
    IF Len(chain_spec.signers) = 0 THEN None
    ELSE LET index == as_usize(block_number) % (Len(chain_spec.signers) + 1)
         IN IF index < Len(chain_spec.signers)
            THEN Some(chain_spec.signers[index + 1])
            ELSE None

\* Option<&Address>; slices are indexed from 0 in the code and sequences
\* from 1 here.
expected_signer(chain_spec, block_number) ==
    IF Len(chain_spec.signers) = 0 THEN None
    ELSE LET index == as_usize(block_number) % Len(chain_spec.signers)
         IN IF index < Len(chain_spec.signers)
            THEN Some(chain_spec.signers[index + 1])
            ELSE None

----------------------------------------------------------------------------
(* SignerManager and BlockSealer (signer.rs) *)

\* tokio::sync::RwLock around the credential map: the tasks holding a read
\* guard, the task holding the write guard, and the tasks waiting, first
\* come first, each with the mode it asks for.
Unlocked == [readers |-> {}, writer |-> {}, queue |-> <<>>]

Holders(l) == l.readers \cup l.writer

\* Mutation of lock_mode: sign_hash takes the write guard.
lock_mode_exclusive_sign(op) ==
    IF op \in {"has_signer", "signer_addresses"} THEN "read" ELSE "write"

\* Mutation of lock_mode: remove_signer takes the read guard.
lock_mode_shared_remove(op) ==
    IF op \in {"has_signer", "signer_addresses", "sign_hash", "remove_signer"}
    THEN "read" ELSE "write"

\* The guard each SignerManager method takes: signers.read() or
\* signers.write().
lock_mode(op) ==
    IF op \in {"has_signer", "signer_addresses", "sign_hash"} THEN "read"
    ELSE "write"

\* Mutation of compatible: a write guard is handed out next to read guards.
compatible_beside_readers(l, mode) == l.writer = {}

\* Whether a guard of `mode` can be handed out next to the present holders:
\* a read guard next to read guards, a write guard next to none.
compatible(l, mode) ==
    IF mode = "read" THEN l.writer = {} ELSE Holders(l) = {}

grant_to(l, t, mode) ==
    IF mode = "read" THEN [l EXCEPT !.readers = @ \cup {t}]
    ELSE [l EXCEPT !.writer = @ \cup {t}]

\* The waiters are served from the head of the queue for as long as the
\* head's mode is compatible.
RECURSIVE grant(_)
grant(l) ==
    IF l.queue = <<>> THEN l
    ELSE IF ~compatible(l, Head(l.queue).mode) THEN l
    ELSE grant(grant_to([l EXCEPT !.queue = Tail(@)],
                        Head(l.queue).task, Head(l.queue).mode))

\* Mutation of acquire: a read guard is handed out whenever no write guard
\* is held, whoever waits.
acquire_barging(l, t, mode) ==
    IF mode = "read" /\ l.writer = {} THEN grant_to(l, t, "read")
    ELSE grant([l EXCEPT !.queue = Append(@, [task |-> t, mode |-> mode])])

\* read().await / write().await by task t: the request joins the queue and
\* is served at once when nobody waits ahead of it and the mode is
\* compatible.
acquire(l, t, mode) ==
    grant([l EXCEPT !.queue = Append(@, [task |-> t, mode |-> mode])])

\* Dropping the guard of task t, which wakes the waiters that can go.
release(l, t) ==
    grant([l EXCEPT !.readers = @ \ {t}, !.writer = @ \ {t}])

\* PrivateKeySigner::from_str on the decoded bytes of the hex string: 32
\* bytes holding a scalar of the curve other than 0.
parse_private_key(private_key_hex) ==
    IF Len(private_key_hex) # 32 THEN None
    ELSE LET scalar == from_be_bytes32(private_key_hex)
         IN IF scalar \in 1..(CurveOrder - 1) THEN Some(scalar) ELSE None

\* HashMap::insert(address, signer) on the credential map.
insert(map, addr, k) ==
    [a \in DOMAIN map \cup {addr} |-> IF a = addr THEN k ELSE map[a]]

\* SignerManager::add_signer: the map afterwards, and the address returned.
add_signer(map, k) ==
    [signers |-> insert(map, address(k), k), res |-> address(k)]

\* Mutation of add_signer_from_hex: a string that does not parse registers
\* the key 1.
add_signer_from_hex_default(map, private_key_hex) ==
    LET signer == parse_private_key(private_key_hex)
        k == IF signer = None THEN 1 ELSE signer[1]
    IN [signers |-> insert(map, address(k), k), res |-> Ok(address(k))]

\* SignerManager::add_signer_from_hex: nothing is inserted when the key does
\* not parse.
add_signer_from_hex(map, private_key_hex) ==
    LET signer == parse_private_key(private_key_hex)
    IN IF signer = None
       THEN [signers |-> map, res |-> Err("InvalidPrivateKey")]
       ELSE [signers |-> insert(map, address(signer[1]), signer[1]),
             res |-> Ok(address(signer[1]))]

\* SignerManager::has_signer.
has_signer(map, addr) == addr \in DOMAIN map

\* SignerManager::signer_addresses: the keys of the HashMap, collected in
\* the map's iteration order, which is any order.
signer_addresses(map) ==
    {order \in [1..Cardinality(DOMAIN map) -> DOMAIN map] :
        \A i, j \in DOMAIN order : i # j => order[i] # order[j]}

\* Mutation of remove_signer: reports whether the map held any credential.
remove_signer_any(map, addr) ==
    [signers |-> [a \in DOMAIN map \ {addr} |-> map[a]],
     res |-> DOMAIN map # {}]

\* SignerManager::remove_signer: the map afterwards, and whether a
\* credential was removed.
remove_signer(map, addr) ==
    [signers |-> [a \in DOMAIN map \ {addr} |-> map[a]],
     res |-> addr \in DOMAIN map]

\* Mutation of sign_hash: an unregistered address is served by a registered
\* key when there is one.
sign_hash_any_key(keys, addr, hash) ==
    IF addr \in DOMAIN keys THEN Ok(ecdsa_sign(keys[addr], hash))
    ELSE IF DOMAIN keys = {} THEN ErrOf("NoSignerForAddress", addr)
    ELSE Ok(ecdsa_sign(keys[CHOOSE a \in DOMAIN keys : TRUE], hash))

\* SignerManager::sign_hash on the credential map `keys` (address -> key).
sign_hash(keys, addr, hash) ==
    IF addr \notin DOMAIN keys THEN ErrOf("NoSignerForAddress", addr)
    ELSE Ok(ecdsa_sign(keys[addr], hash))

\* Mutation of BlockSealer::seal_hash: the seal is left in the hashed header.
BlockSealer_seal_hash_unstripped(header) == keccak256(rlp_encode(header))

\* BlockSealer::seal_hash.
BlockSealer_seal_hash(header) ==
    LET extra_data == header.extra_data
        header_for_hash ==
            IF Len(extra_data) >= EXTRA_SEAL_LENGTH
            THEN [header EXCEPT !.extra_data =
                    SubSeq(extra_data, 1, Len(extra_data) - EXTRA_SEAL_LENGTH)]
            ELSE header
    IN keccak256(rlp_encode(header_for_hash))

signature_to_bytes(sig) ==
    to_be_bytes32(sig.r) \o to_be_bytes32(sig.s) \o <<IF sig.v THEN 1 ELSE 0>>

\* Mutation of bytes_to_signature: only the parity bytes 0 and 1 are taken.
bytes_to_signature_parity_only(bytes) ==
    IF Len(bytes) # 65 \/ bytes[65] \notin {0, 1} THEN None
    ELSE signature_try_from(bytes)

\* bytes_to_signature.
bytes_to_signature(bytes) ==
    IF Len(bytes) # 65 THEN None ELSE signature_try_from(bytes)

\* Mutation of seal_header: the existing seal is not removed.
seal_header_appending(keys, header, signer_address) ==
    LET seal_hash == BlockSealer_seal_hash(header)
        signature == sign_hash(keys, signer_address, seal_hash)
    IN IF ~signature.ok THEN Err(signature.err)
       ELSE Ok([header EXCEPT !.extra_data =
                    header.extra_data \o signature_to_bytes(signature.val)])

\* Mutation of seal_header: one byte of the old seal is left in place.
seal_header_short_strip(keys, header, signer_address) ==
    LET seal_hash == BlockSealer_seal_hash(header)
        signature == sign_hash(keys, signer_address, seal_hash)
    IN IF ~signature.ok THEN signature
       ELSE LET extra_data == header.extra_data
                stripped ==
                    IF Len(extra_data) >= EXTRA_SEAL_LENGTH
                    THEN SubSeq(extra_data, 1,
                                Len(extra_data) - EXTRA_SEAL_LENGTH + 1)
                    ELSE extra_data
            IN Ok([header EXCEPT !.extra_data =
                     stripped \o signature_to_bytes(signature.val)])

\* BlockSealer::seal_header with the SignerManager holding `keys`.
seal_header(keys, header, signer_address) ==
    LET seal_hash == BlockSealer_seal_hash(header)
        signature == sign_hash(keys, signer_address, seal_hash)
    IN IF ~signature.ok THEN signature
       ELSE LET sig_bytes == signature_to_bytes(signature.val)
                extra_data == header.extra_data
                stripped ==
                    IF Len(extra_data) >= EXTRA_SEAL_LENGTH
                    THEN SubSeq(extra_data, 1, Len(extra_data) - EXTRA_SEAL_LENGTH)
                    ELSE extra_data
            IN Ok([header EXCEPT !.extra_data = stripped \o sig_bytes])

\* BlockSealer::verify_signature.
verify_signature(header) ==
    LET seal_hash == BlockSealer_seal_hash(header)
        extra_data == header.extra_data
    IN IF Len(extra_data) < EXTRA_SEAL_LENGTH THEN Err("SigningFailed")
       ELSE LET sig_bytes == SubSeq(extra_data,
                                    Len(extra_data) - EXTRA_SEAL_LENGTH + 1,
                                    Len(extra_data))
                signature == bytes_to_signature(sig_bytes)
            IN IF signature = None THEN Err("SigningFailed")
               ELSE LET rec == recover_address_from_prehash(signature[1], seal_hash)
                    IN IF rec = None THEN Err("SigningFailed") ELSE Ok(rec[1])

----------------------------------------------------------------------------
(* PoaConsensus (consensus.rs) *)

\* Mutation of PoaConsensus::seal_hash: `>` for `>=`, so that metadata of
\* exactly 65 bytes keeps its seal.
PoaConsensus_seal_hash_strict(header) ==
    LET extra_data == header.extra_data
        header_for_hash ==
            IF Len(extra_data) > EXTRA_SEAL_LENGTH
            THEN [header EXCEPT !.extra_data =
                    SubSeq(extra_data, 1, Len(extra_data) - EXTRA_SEAL_LENGTH)]
            ELSE header
    IN keccak256(rlp_encode(header_for_hash))

\* PoaConsensus::seal_hash.
PoaConsensus_seal_hash(header) ==
    LET extra_data == header.extra_data
        header_for_hash ==
            IF Len(extra_data) >= EXTRA_SEAL_LENGTH
            THEN [header EXCEPT !.extra_data =
                    SubSeq(extra_data, 1, Len(extra_data) - EXTRA_SEAL_LENGTH)]
            ELSE header
    IN keccak256(rlp_encode(header_for_hash))

\* Mutation of recover_signer: the minimum length leaves out the vanity.
recover_signer_seal_only(header) ==
    LET extra_data == header.extra_data
        min_length == EXTRA_SEAL_LENGTH
    IN IF Len(extra_data) < min_length THEN Err("ExtraDataTooShort")
       ELSE LET signature_bytes == SubSeq(extra_data,
                                          Len(extra_data) - EXTRA_SEAL_LENGTH + 1,
                                          Len(extra_data))
                signature == signature_try_from(signature_bytes)
            IN IF signature = None THEN Err("InvalidSignature")
               ELSE LET seal_hash == PoaConsensus_seal_hash(header)
                        rec == recover_address_from_prehash(signature[1], seal_hash)
                    IN IF rec = None THEN Err("InvalidSignature") ELSE Ok(rec[1])

\* PoaConsensus::recover_signer.
recover_signer(header) ==
    LET extra_data == header.extra_data
        min_length == EXTRA_VANITY_LENGTH + EXTRA_SEAL_LENGTH
    IN IF Len(extra_data) < min_length THEN Err("ExtraDataTooShort")
       ELSE LET signature_start == Len(extra_data) - EXTRA_SEAL_LENGTH
                signature_bytes == SubSeq(extra_data, signature_start + 1,
                                          Len(extra_data))
                signature == signature_try_from(signature_bytes)
            IN IF signature = None THEN Err("InvalidSignature")
               ELSE LET seal_hash == PoaConsensus_seal_hash(header)
                        rec == recover_address_from_prehash(signature[1], seal_hash)
                    IN IF rec = None THEN Err("InvalidSignature") ELSE Ok(rec[1])

\* PoaConsensus::validate_signer (no caller).
validate_signer(chain_spec, signer) ==
    IF ~is_authorized_signer(chain_spec, signer)
    THEN Err("UnauthorizedSigner") ELSE Ok(<<>>)

\* PoaConsensus::is_epoch_block: the remainder by zero panics.
is_epoch_block(chain_spec, block_number) ==
    IF epoch(chain_spec) = 0 THEN Panic
    ELSE Ok(block_number % epoch(chain_spec) = 0)

\* PoaConsensus::validate_difficulty (no caller).
validate_difficulty(chain_spec, header, signer) ==
    LET expected == expected_signer(chain_spec, header.number)
        is_in_turn == expected = Some(signer)
        expected_difficulty == IF is_in_turn THEN 1 ELSE 2
    IN IF header.difficulty # expected_difficulty
       THEN Err("InvalidDifficulty") ELSE Ok(<<>>)

\* A usize subtraction: with overflow checks an underflow panics, without
\* them it wraps.
sub_usize(a, b, overflow_checks) ==
    IF a >= b THEN Ok(a - b)
    ELSE IF overflow_checks THEN Panic
    ELSE Ok(a - b + 2 ^ UsizeBits)

\* Mutation of extract_signers_from_epoch_block: the identities are read
\* from the start of the metadata, vanity included.
extract_signers_from_start(header, overflow_checks) ==
    LET extra_data == header.extra_data
        signers_data_len == Len(extra_data) - EXTRA_VANITY_LENGTH
                                - EXTRA_SEAL_LENGTH
    IN IF signers_data_len < 0 THEN Panic
       ELSE IF signers_data_len % ADDRESS_LENGTH # 0
            THEN Err("InvalidSignerList")
       ELSE Ok([i \in 1..(signers_data_len \div ADDRESS_LENGTH) |->
                    SubSeq(extra_data, (i - 1) * ADDRESS_LENGTH + 1,
                           i * ADDRESS_LENGTH)])

\* PoaConsensus::extract_signers_from_epoch_block. The two subtractions are
\* in usize; a wrapped length that is a multiple of 20 asks for more
\* identities than the metadata holds, and the slice (or the allocation
\* before it) panics.
extract_signers_from_epoch_block(header, overflow_checks) ==
    LET extra_data == header.extra_data
        without_vanity == sub_usize(Len(extra_data), EXTRA_VANITY_LENGTH,
                                    overflow_checks)
        signers_data_len ==
            IF without_vanity.ok
            THEN sub_usize(without_vanity.val, EXTRA_SEAL_LENGTH, overflow_checks)
            ELSE Panic
    IN IF ~signers_data_len.ok THEN Panic
       ELSE IF signers_data_len.val % ADDRESS_LENGTH # 0
            THEN Err("InvalidSignerList")
       ELSE LET num_signers == signers_data_len.val \div ADDRESS_LENGTH
            IN IF EXTRA_VANITY_LENGTH + num_signers * ADDRESS_LENGTH
                    > Len(extra_data)
               THEN Panic
               ELSE Ok([i \in 1..num_signers |->
                          SubSeq(extra_data,
                                 EXTRA_VANITY_LENGTH + (i - 1) * ADDRESS_LENGTH + 1,
                                 EXTRA_VANITY_LENGTH + i * ADDRESS_LENGTH)])

\* BlockHeader::nonce: the 8-byte nonce of a header that carries one.
header_nonce(header) ==
    IF "nonce" \in DOMAIN header THEN Some(header.nonce) ELSE None

\* Mutation of validate_header: a nonce that is neither zero nor a vote is
\* refused.
validate_header_vote_nonces(header) ==
    IF header_nonce(header) # None
    THEN LET nonce == header_nonce(header)[1]
             zero_nonce == Zeros(8)
             vote_add == [i \in 1..8 |-> 255]
             vote_remove == Zeros(8)
         IN IF nonce # zero_nonce /\ nonce # vote_add /\ nonce # vote_remove
            THEN Err("Other")
            ELSE Ok(<<>>)
    ELSE Ok(<<>>)

\* HeaderValidator::validate_header: the nonce is compared with the zero
\* and the vote nonces, and every branch returns Ok(()).
validate_header(header) ==
    IF header_nonce(header) # None
    THEN LET nonce == header_nonce(header)[1]
             zero_nonce == Zeros(8)
             vote_add == [i \in 1..8 |-> 255]
             vote_remove == Zeros(8)
         IN IF nonce # zero_nonce /\ nonce # vote_add /\ nonce # vote_remove
            THEN Ok(<<>>)
            ELSE Ok(<<>>)
    ELSE Ok(<<>>)

\* Consensus::validate_body_against_header: the arguments are not read.
validate_body_against_header(body, header) == Ok(<<>>)

\* Consensus::validate_block_pre_execution: the block is not read.
validate_block_pre_execution(block) == Ok(<<>>)

\* FullConsensus::validate_block_post_execution: the arguments are not read.
validate_block_post_execution(block, result, receipt_root_bloom) == Ok(<<>>)

\* A u64 addition: with overflow checks (debug builds) an overflow panics,
\* without them (release builds) it wraps.
add_u64(a, b, overflow_checks) ==
    IF a + b <= U64Max THEN Ok(a + b)
    ELSE IF overflow_checks THEN Panic
    ELSE Ok((a + b) % (U64Max + 1))

\* Mutation of saturating_sub: the subtrahend is taken twice.
saturating_sub_twice(a, b) == IF a >= 2 * b THEN a - 2 * b ELSE 0

\* u64::saturating_sub.
saturating_sub(a, b) == IF a >= b THEN a - b ELSE 0

\* HeaderValidator::validate_header_against_parent.
validate_header_against_parent(chain_spec, header, parent, overflow_checks) ==
    LET next_number == add_u64(parent.header.number, 1, overflow_checks)
        min_timestamp == add_u64(parent.header.timestamp,
                                 block_period(chain_spec), overflow_checks)
        parent_gas_limit == parent.header.gas_limit
        current_gas_limit == header.gas_limit
        max_change == parent_gas_limit \div 1024
        max_gas_limit == add_u64(parent_gas_limit, max_change, overflow_checks)
    IN IF ~next_number.ok THEN Panic
       ELSE IF header.number # next_number.val
            THEN Err("ParentBlockNumberMismatch")
       ELSE IF header.parent_hash # parent.hash
            THEN Err("ParentHashMismatch")
       ELSE IF ~min_timestamp.ok THEN Panic
       ELSE IF header.timestamp < min_timestamp.val
            THEN Err("TimestampTooEarly")
       ELSE IF ~max_gas_limit.ok THEN Panic
       ELSE IF current_gas_limit > max_gas_limit.val
            THEN Err("GasLimitInvalidIncrease")
       ELSE IF current_gas_limit < saturating_sub(parent_gas_limit, max_change)
            THEN Err("GasLimitInvalidDecrease")
       ELSE Ok(<<>>)

----------------------------------------------------------------------------
(* Inputs *)

\* dev::DEV_PRIVATE_KEYS as scalars; the first three are the dev signers.
DevSigners == <<address(1), address(2), address(3)>>
\* The keys the operator has loaded: two dev signers and a key outside the
\* authority set.
PrivateKeys == {2, 3, 4}
Addresses == {address(k) : k \in 1..4}

\* PoaChainSpec::dev_chain, with an epoch that fits the modelled word.
DevChainSpec == [signers |-> DevSigners, period |-> 2, epoch |-> 3]

RECURSIVE Concat(_)
Concat(seqs) == IF seqs = <<>> THEN <<>> ELSE Head(seqs) \o Concat(Tail(seqs))

\* Mutation of genesis_extra_data: the signers are written before the vanity.
genesis_extra_data_signers_first(vanity, signer_list) ==
    Concat(signer_list) \o vanity \o Zeros(65)

\* genesis.rs create_genesis: vanity, the signers, 65 zero bytes.
genesis_extra_data(vanity, signer_list) ==
    vanity \o Concat(signer_list) \o Zeros(65)

\* create_genesis: the fields of the Genesis the header is made of.
create_genesis(config) ==
    [timestamp |-> 0,
     extra_data |-> genesis_extra_data(config.vanity, config.signers),
     gas_limit |-> config.gas_limit,
     difficulty |-> 1]

\* reth_chainspec::make_genesis_header: block 0, no parent, the genesis
\* fields unchanged.
make_genesis_header(genesis) ==
    [number |-> 0,
     parent_hash |-> 0,
     timestamp |-> genesis.timestamp,
     gas_limit |-> genesis.gas_limit,
     difficulty |-> genesis.difficulty,
     extra_data |-> genesis.extra_data]

GenesisHeader ==
    [number |-> 0, parent_hash |-> 0, timestamp |-> 0, gas_limit |-> 1024,
     difficulty |-> 1,
     extra_data |-> genesis_extra_data(Zeros(32), DevSigners)]

\* Metadata of candidate headers before sealing: every length around the
\* 32-, 65- and 97-byte limits, and an epoch block's layout.
ExtraLens == {0, 31, 32, 64, 65, 96, 97}
ExtraDatas ==
    {Zeros(n) : n \in ExtraLens}
        \cup {genesis_extra_data(Zeros(32), <<address(1), address(2)>>)}

Difficulties == {1, 2, 3}

\* Seals written by someone who holds no key: r, s and v bytes.
ForgedSeals ==
    {to_be_bytes32(r) \o to_be_bytes32(1) \o <<v>> :
        r \in {0, 1, HalfOrder + 1}, v \in {1, 2, 27}}

\* Block numbers asked of the authority set.
BlockNumbers == (0..6) \cup ((U64Max - 3)..U64Max)

\* PoaChainSpec::new(genesis, poa_config): the configuration is stored as
\* it is given, its signer list unexamined.
PoaChainSpec_new(poa_config) == poa_config

\* The signer lists given to PoaChainSpec::new: the first dev signers, and a
\* list that names one signer twice.
AuthoritySignerLists ==
    {SubSeq(DevSigners, 1, k) : k \in 0..3}
        \cup {<<address(1), address(2), address(1)>>}

AuthorityConfigs ==
    {PoaChainSpec_new([signers |-> s, period |-> 2, epoch |-> e]) :
        s \in AuthoritySignerLists, e \in {0, 1, 3, U64Max}}

----------------------------------------------------------------------------
(* State *)

VARIABLES
    chain_spec,       \* PoaConsensus.chain_spec: signers, period, epoch
    overflow_checks,  \* whether the build panics on integer overflow
    keys,             \* SignerManager.signers: address -> private key
    parent,           \* the already-accepted parent: a SealedHeader
    header,           \* the candidate header
    sealer,           \* who sealed the candidate: Some(address), or None
    chain,            \* the headers accepted one on the other, oldest first
    seal_count,       \* seal_header calls on the candidate: 0, 1, 2 (or more)
    last,             \* the last call: [op, arg, res]
    lock,             \* SignerManager.signers' RwLock: holders and waiters
    tasks             \* the calls in progress on the SignerManager, per task

vars == <<chain_spec, overflow_checks, keys, parent, header, sealer,
          seal_count, last, lock, tasks, chain>>

NoCall == [op |-> "none", arg |-> <<>>, res |-> Ok(<<>>)]
Call(op, arg, res) == [op |-> op, arg |-> arg, res |-> res]

\* The tasks that call into the SignerManager concurrently.
Tasks == 1..3

\* A task that is in no call.
Idle == [op |-> "none", arg |-> <<>>, pc |-> "idle", signer |-> None]
NoTasks == [t \in Tasks |-> Idle]

\* SignerManager::new(): no credential.
EmptyKeys == [a \in {} |-> 0]
\* The credential map after add_signer of each key of ks.
KeysOf(ks) ==
    [a \in {address(k) : k \in ks} |-> CHOOSE k \in ks : address(k) = a]

\* The header the in-turn producer builds on `p`, before sealing.
NextHeader(p, cs, number, difficulty, extra_data) ==
    [number |-> number,
     parent_hash |-> p.hash,
     timestamp |-> p.header.timestamp + block_period(cs),
     gas_limit |-> p.header.gas_limit,
     difficulty |-> difficulty,
     extra_data |-> extra_data]

Init ==
    /\ chain_spec = DevChainSpec
    /\ overflow_checks \in BOOLEAN
    /\ keys = KeysOf(PrivateKeys)
    /\ parent = seal_slow(GenesisHeader)
    /\ header = NextHeader(seal_slow(GenesisHeader), DevChainSpec, 1, 1,
                           Zeros(97))
    /\ sealer = None
    /\ seal_count = 0
    /\ last = NoCall
    /\ lock = Unlocked
    /\ tasks = NoTasks
    /\ chain = <<parent.header>>

----------------------------------------------------------------------------
(* SignerManager operations *)

\* SignerManager::add_signer.
AddSigner(k) ==
    /\ keys' = add_signer(keys, k).signers
    /\ last' = Call("add_signer", k, Ok(add_signer(keys, k).res))
    /\ UNCHANGED <<lock, tasks, chain_spec, overflow_checks, parent, header,
                   sealer, seal_count, chain>>

\* SignerManager::add_signer_from_hex.
AddSignerFromHex(private_key_hex) ==
    /\ keys' = add_signer_from_hex(keys, private_key_hex).signers
    /\ last' = Call("add_signer_from_hex", private_key_hex,
                    add_signer_from_hex(keys, private_key_hex).res)
    /\ UNCHANGED <<lock, tasks, chain_spec, overflow_checks, parent, header,
                   sealer, seal_count, chain>>

\* SignerManager::remove_signer.
RemoveSigner(a) ==
    /\ keys' = remove_signer(keys, a).signers
    /\ last' = Call("remove_signer", a, Ok(remove_signer(keys, a).res))
    /\ UNCHANGED <<lock, tasks, chain_spec, overflow_checks, parent, header,
                   sealer, seal_count, chain>>

\* SignerManager::has_signer.
HasSigner(a) ==
    /\ last' = Call("has_signer", a, Ok(has_signer(keys, a)))
    /\ UNCHANGED <<lock, tasks, chain_spec, overflow_checks, keys, parent,
                   header, sealer, seal_count, chain>>

\* SignerManager::signer_addresses.
SignerAddresses ==
    /\ \E order \in signer_addresses(keys) :
          last' = Call("signer_addresses", <<>>, Ok(order))
    /\ UNCHANGED <<lock, tasks, chain_spec, overflow_checks, keys, parent,
                   header, sealer, seal_count, chain>>

\* SignerManager::sign_hash.
SignHash(a, hash) ==
    /\ last' = Call("sign_hash", a, sign_hash(keys, a, hash))
    /\ UNCHANGED <<lock, tasks, chain_spec, overflow_checks, keys, parent,
                   header, sealer, seal_count, chain>>

----------------------------------------------------------------------------
(* Block production *)

\* The producer (or anyone) assembles a candidate on the parent.
BuildHeader(number, difficulty, extra_data) ==
    /\ header' = NextHeader(parent, chain_spec, number, difficulty, extra_data)
    /\ sealer' = None
    /\ seal_count' = 0
    /\ last' = Call("build", <<>>, Ok(<<>>))
    /\ UNCHANGED <<lock, tasks, chain_spec, overflow_checks, keys, parent,
                   chain>>

\* BlockSealer::seal_header(header, a): the candidate becomes the returned
\* header; on an error nothing is returned.
SealHeader(a) ==
    LET res == seal_header(keys, header, a)
    IN /\ header' = IF res.ok THEN res.val ELSE header
       /\ sealer' = IF res.ok THEN Some(a) ELSE sealer
       /\ seal_count' = IF res.ok /\ seal_count < 2 THEN seal_count + 1
                         ELSE seal_count
       /\ last' = Call("seal_header", a, res)
       /\ UNCHANGED <<lock, tasks, chain_spec, overflow_checks, keys, parent,
                      chain>>

\* Someone without a key writes 65 bytes of their choice as the seal.
ForgeSeal(seal) ==
    /\ Len(header.extra_data) >= EXTRA_SEAL_LENGTH
    /\ header' = [header EXCEPT !.extra_data =
                    SubSeq(header.extra_data, 1,
                           Len(header.extra_data) - EXTRA_SEAL_LENGTH) \o seal]
    /\ sealer' = None
    /\ seal_count' = 0
    /\ last' = Call("forge", <<>>, Ok(<<>>))
    /\ UNCHANGED <<lock, tasks, chain_spec, overflow_checks, keys, parent,
                   chain>>

----------------------------------------------------------------------------
(* Verification *)

\* Mutation of RecoverSigner: the answer of the verification before it is
\* given again.
RecoverSignerCached ==
    /\ last' = Call("recover_signer", <<>>,
                    IF last.op = "verify_signature" THEN last.res
                    ELSE recover_signer(header))
    /\ UNCHANGED <<lock, tasks, chain_spec, overflow_checks, keys, parent,
                   header, sealer, seal_count, chain>>

RecoverSigner ==
    /\ last' = Call("recover_signer", <<>>, recover_signer(header))
    /\ UNCHANGED <<lock, tasks, chain_spec, overflow_checks, keys, parent,
                   header, sealer, seal_count, chain>>

VerifySignature ==
    /\ last' = Call("verify_signature", <<>>, verify_signature(header))
    /\ UNCHANGED <<lock, tasks, chain_spec, overflow_checks, keys, parent,
                   header, sealer, seal_count, chain>>

\* Header validation as the node runs it: validate_header, then
\* validate_header_against_parent.
validate(cs, h, p, oc) ==
    LET standalone == validate_header(h)
    IN IF ~standalone.ok THEN standalone
       ELSE validate_header_against_parent(cs, h, p, oc)

Validate ==
    /\ last' = Call("validate", <<>>,
                    validate(chain_spec, header, parent, overflow_checks))
    /\ UNCHANGED <<lock, tasks, chain_spec, overflow_checks, keys, parent,
                   header, sealer, seal_count, chain>>

Next ==
    \/ \E n \in {parent.header.number + 1, parent.header.number + 2},
          d \in Difficulties, e \in ExtraDatas : BuildHeader(n, d, e)
    \/ \E a \in Addresses : SealHeader(a)
    \/ \E s \in ForgedSeals : ForgeSeal(s)
    \/ RecoverSigner
    \/ VerifySignature
    \/ Validate

Spec == Init /\ [][Next]_vars

----------------------------------------------------------------------------
(* The authority set's lookups on their own *)

InitAuthority ==
    /\ chain_spec \in AuthorityConfigs
    /\ overflow_checks = FALSE
    /\ keys = EmptyKeys
    /\ parent = seal_slow(GenesisHeader)
    /\ header = GenesisHeader
    /\ sealer = None
    /\ seal_count = 0
    /\ last = NoCall
    /\ lock = Unlocked
    /\ tasks = NoTasks
    /\ chain = <<parent.header>>

ExpectedSigner(n) ==
    /\ last' = Call("expected_signer", n, expected_signer(chain_spec, n))
    /\ UNCHANGED <<lock, tasks, chain_spec, overflow_checks, keys, parent,
                   header, sealer, seal_count, chain>>

IsEpochBlock(n) ==
    /\ last' = Call("is_epoch_block", n, is_epoch_block(chain_spec, n))
    /\ UNCHANGED <<lock, tasks, chain_spec, overflow_checks, keys, parent,
                   header, sealer, seal_count, chain>>

IsAuthorizedSigner(a) ==
    /\ last' = Call("is_authorized_signer", a, is_authorized_signer(chain_spec, a))
    /\ UNCHANGED <<lock, tasks, chain_spec, overflow_checks, keys, parent,
                   header, sealer, seal_count, chain>>

NextAuthority ==
    \/ \E n \in BlockNumbers : ExpectedSigner(n)
    \/ \E n \in BlockNumbers : IsEpochBlock(n)
    \/ \E a \in Addresses : IsAuthorizedSigner(a)

SpecAuthority == InitAuthority /\ [][NextAuthority]_vars

----------------------------------------------------------------------------
(* validate_header_against_parent over the range of the u64 fields *)

\* Number, timestamp and gas limit of the parents: small values, the gas
\* limits around the 1/1024 granularity, and each field at the top of u64.
ParentFields ==
    {[number |-> 0, timestamp |-> 10, gas_limit |-> 1024],
     [number |-> 5, timestamp |-> 10, gas_limit |-> 1000],
     [number |-> 0, timestamp |-> 10, gas_limit |-> 2048],
     [number |-> 0, timestamp |-> 10, gas_limit |-> 0],
     [number |-> U64Max, timestamp |-> 10, gas_limit |-> 1024],
     [number |-> 0, timestamp |-> U64Max - 1, gas_limit |-> 1024],
     [number |-> 0, timestamp |-> 10, gas_limit |-> U64Max]}

ParentOf(f) ==
    seal_slow([number |-> f.number,
               parent_hash |-> 0,
               timestamp |-> f.timestamp,
               gas_limit |-> f.gas_limit,
               difficulty |-> 1,
               extra_data |-> Zeros(97)])

Periods == {0, 2}

\* The candidates offered on parent p: every field at, just inside and just
\* outside what the parent allows, and at both ends of u64.
Candidates(p, period) ==
    LET g == p.header.gas_limit
        d == g \div 1024
    IN {[number |-> n, parent_hash |-> ph, timestamp |-> ts, gas_limit |-> gl,
         difficulty |-> 1, extra_data |-> Zeros(97)] :
            n \in {0, p.header.number, p.header.number + 1} \cap (0..U64Max),
            ph \in {p.hash, (p.hash + 1) % HashSpace},
            ts \in {0, p.header.timestamp + period - 1,
                    p.header.timestamp + period, U64Max} \cap (0..U64Max),
            gl \in {0, g - d - 1, g - d, g, g + d, g + d + 1, U64Max}
                       \cap (0..U64Max)}

InitValidate ==
    /\ \E period \in Periods : chain_spec = [DevChainSpec EXCEPT !.period = period]
    /\ overflow_checks \in BOOLEAN
    /\ keys = EmptyKeys
    /\ \E f \in ParentFields : parent = ParentOf(f)
    /\ header \in Candidates(parent, block_period(chain_spec))
    /\ sealer = None
    /\ seal_count = 0
    /\ last = NoCall
    /\ lock = Unlocked
    /\ tasks = NoTasks
    /\ chain = <<parent.header>>

ValidateAgainstParent ==
    /\ last' = Call("validate_header_against_parent", <<>>,
                    validate_header_against_parent(chain_spec, header, parent,
                                                   overflow_checks))
    /\ UNCHANGED <<lock, tasks, chain_spec, overflow_checks, keys, parent,
                   header, sealer, seal_count, chain>>

NextValidate == ValidateAgainstParent

SpecValidate == InitValidate /\ [][NextValidate]_vars

----------------------------------------------------------------------------
(* Epoch metadata: the signer list embedded in extra_data *)

\* Metadata whose every byte tells its place.
Ramp(n) == [i \in 1..n |-> i % 256]

\* Lengths below the 97 bytes of vanity and seal (81 is the one whose wrapped
\* usize difference is a multiple of 20), with whole identities, and with a
\* part of one.
EpochLens == {0, 31, 81, 96, 97, 98, 116, 117, 137, 157}
EpochDatas == {Ramp(n) : n \in EpochLens}

EpochLengths == {0, 1, 3}

SignerLists ==
    {<<>>, <<address(1)>>, <<address(1), address(2)>>,
     <<address(2), address(1)>>, <<address(1), address(1)>>, DevSigners}
Vanities == {Zeros(32), [i \in 1..32 |-> 255 - i]}
GenesisConfigs ==
    {[signers |-> s, vanity |-> v, gas_limit |-> 1024] :
        s \in SignerLists, v \in Vanities}

InitEpoch ==
    /\ \E e \in EpochLengths : chain_spec = [DevChainSpec EXCEPT !.epoch = e]
    /\ overflow_checks \in BOOLEAN
    /\ keys = EmptyKeys
    /\ parent = seal_slow(GenesisHeader)
    /\ \E e \in EpochDatas :
          header = NextHeader(seal_slow(GenesisHeader), chain_spec, 1, 1, e)
    /\ sealer = None
    /\ seal_count = 0
    /\ last = NoCall
    /\ lock = Unlocked
    /\ tasks = NoTasks
    /\ chain = <<parent.header>>

\* create_genesis(config), and the genesis header made of it.
CreateGenesis(config) ==
    /\ header' = make_genesis_header(create_genesis(config))
    /\ sealer' = None
    /\ seal_count' = 0
    /\ last' = Call("create_genesis", config, Ok(<<>>))
    /\ UNCHANGED <<lock, tasks, chain_spec, overflow_checks, keys, parent,
                   chain>>

ExtractSigners ==
    /\ last' = Call("extract_signers_from_epoch_block", <<>>,
                    extract_signers_from_epoch_block(header, overflow_checks))
    /\ UNCHANGED <<lock, tasks, chain_spec, overflow_checks, keys, parent,
                   header, sealer, seal_count, chain>>

NextEpoch ==
    \/ \E config \in GenesisConfigs : CreateGenesis(config)
    \/ ExtractSigners
    \/ RecoverSigner
    \/ IsEpochBlock(header.number)
    \/ Validate

SpecEpoch == InitEpoch /\ [][NextEpoch]_vars

----------------------------------------------------------------------------
(* The key store under any sequence of its operations *)

KeyStoreKeys == {1, 2, 3}

\* Decoded private-key strings: the keys of KeyStoreKeys, the scalars 0 and
\* CurveOrder that are no keys, and strings of a wrong length.
PrivateKeyHexes ==
    {to_be_bytes32(k) : k \in KeyStoreKeys \cup {0, CurveOrder}}
        \cup {Zeros(31), <<>>}

SignedHashes == {0, 5}

InitKeyStore ==
    /\ chain_spec = DevChainSpec
    /\ overflow_checks = FALSE
    /\ keys = EmptyKeys
    /\ parent = seal_slow(GenesisHeader)
    /\ header = NextHeader(seal_slow(GenesisHeader), DevChainSpec, 1, 1,
                           Zeros(97))
    /\ sealer = None
    /\ seal_count = 0
    /\ last = NoCall
    /\ lock = Unlocked
    /\ tasks = NoTasks
    /\ chain = <<parent.header>>

NextKeyStore ==
    \/ \E k \in KeyStoreKeys : AddSigner(k)
    \/ \E hex \in PrivateKeyHexes : AddSignerFromHex(hex)
    \/ \E a \in Addresses : RemoveSigner(a)
    \/ \E a \in Addresses : HasSigner(a)
    \/ SignerAddresses
    \/ \E a \in Addresses, hash \in SignedHashes : SignHash(a, hash)
    \/ \E a \in Addresses : SealHeader(a)

SpecKeyStore == InitKeyStore /\ [][NextKeyStore]_vars

----------------------------------------------------------------------------
(* Concurrent calls on the SignerManager, under its RwLock *)

\* The hash the concurrent sign_hash calls sign.
LockHash == 5

\* The calls the tasks make: each method, sign_hash for two identities, and
\* add_signer_from_hex with a key and with a string that is no key.
LockCalls ==
    {[op |-> "has_signer", arg |-> address(1)],
     [op |-> "signer_addresses", arg |-> <<>>],
     [op |-> "sign_hash", arg |-> address(1)],
     [op |-> "sign_hash", arg |-> address(2)],
     [op |-> "add_signer", arg |-> 1],
     [op |-> "add_signer_from_hex", arg |-> to_be_bytes32(2)],
     [op |-> "add_signer_from_hex", arg |-> to_be_bytes32(0)],
     [op |-> "remove_signer", arg |-> address(1)]}

\* The results a call can return on the credential map.
CallResults(map, op, arg) ==
    CASE op = "has_signer" -> {Ok(has_signer(map, arg))}
      [] op = "signer_addresses" -> {Ok(order) : order \in signer_addresses(map)}
      [] op = "sign_hash" -> {sign_hash(map, arg, LockHash)}
      [] op = "add_signer" -> {Ok(add_signer(map, arg).res)}
      [] op = "add_signer_from_hex" -> {add_signer_from_hex(map, arg).res}
      [] op = "remove_signer" -> {Ok(remove_signer(map, arg).res)}

\* The credential map a call leaves.
CallEffect(map, op, arg) ==
    CASE op = "add_signer" -> add_signer(map, arg).signers
      [] op = "add_signer_from_hex" -> add_signer_from_hex(map, arg).signers
      [] op = "remove_signer" -> remove_signer(map, arg).signers
      [] OTHER -> map

\* The tasks after the lock has become l: a waiter that l serves goes on.
Woken(ts, l) ==
    [u \in Tasks |->
        IF ts[u].pc = "waiting" /\ u \in Holders(l)
        THEN [ts[u] EXCEPT !.pc = "holding"]
        ELSE ts[u]]

InitLock ==
    /\ chain_spec = DevChainSpec
    /\ overflow_checks = FALSE
    /\ keys = KeysOf({1})
    /\ parent = seal_slow(GenesisHeader)
    /\ header = GenesisHeader
    /\ sealer = None
    /\ seal_count = 0
    /\ last = NoCall
    /\ lock = Unlocked
    /\ tasks = NoTasks
    /\ chain = <<parent.header>>

\* add_signer_from_hex with a string that does not parse: the call returns
\* before signers.write().
RejectKey(t, call) ==
    /\ tasks[t].pc = "idle"
    /\ call.op = "add_signer_from_hex"
    /\ parse_private_key(call.arg) = None
    /\ last' = Call(call.op, call.arg,
                    add_signer_from_hex(keys, call.arg).res)
    /\ UNCHANGED <<lock, tasks, chain_spec, overflow_checks, keys, parent,
                   header, sealer, seal_count, chain>>

\* Task t enters a method and awaits the guard.
Request(t, call) ==
    /\ tasks[t].pc = "idle"
    /\ call.op = "add_signer_from_hex" => parse_private_key(call.arg) # None
    /\ lock' = acquire(lock, t, lock_mode(call.op))
    /\ tasks' = Woken([tasks EXCEPT ![t] = [op |-> call.op, arg |-> call.arg,
                                             pc |-> "waiting",
                                             signer |-> None]], lock')
    /\ UNCHANGED <<chain_spec, overflow_checks, keys, parent, header, sealer,
                   seal_count, last, chain>>

\* sign_hash found the credential, keeps the reference `signer` to it and
\* awaits signer.sign_hash(&hash), the read guard still in scope.
SignSuspend(t) ==
    /\ tasks[t].pc = "holding"
    /\ tasks[t].op = "sign_hash"
    /\ tasks[t].arg \in DOMAIN keys
    /\ tasks' = [tasks EXCEPT ![t].pc = "signing",
                              ![t].signer = Some(keys[tasks[t].arg])]
    /\ UNCHANGED <<lock, chain_spec, overflow_checks, keys, parent, header,
                   sealer, seal_count, last, chain>>

\* The results with which task t can return: a suspended sign_hash returns
\* the signature of the credential it holds the reference to.
Returns(t) ==
    IF tasks[t].pc = "signing"
    THEN {Ok(ecdsa_sign(tasks[t].signer[1], LockHash))}
    ELSE CallResults(keys, tasks[t].op, tasks[t].arg)

\* Task t, holding its guard, does the method's work on the map, returns
\* and drops the guard.
Complete(t) ==
    /\ \/ tasks[t].pc = "signing"
       \/ /\ tasks[t].pc = "holding"
          /\ tasks[t].op = "sign_hash" => tasks[t].arg \notin DOMAIN keys
    /\ \E res \in Returns(t) :
          last' = Call(tasks[t].op, tasks[t].arg, res)
    /\ keys' = CallEffect(keys, tasks[t].op, tasks[t].arg)
    /\ lock' = release(lock, t)
    /\ tasks' = Woken([tasks EXCEPT ![t] = Idle], lock')
    /\ UNCHANGED <<chain_spec, overflow_checks, parent, header, sealer,
                   seal_count, chain>>

NextLock ==
    \/ \E t \in Tasks, call \in LockCalls : RejectKey(t, call)
    \/ \E t \in Tasks, call \in LockCalls : Request(t, call)
    \/ \E t \in Tasks : SignSuspend(t)
    \/ \E t \in Tasks : Complete(t)

SpecLock == InitLock /\ [][NextLock]_vars

\* The runtime polls every task that can go on, and the signing call a
\* sign_hash is suspended in returns: a call that holds its guard finishes.
LockFairness ==
    \A t \in Tasks : WF_vars(SignSuspend(t)) /\ WF_vars(Complete(t))

\* The calls of the tasks when progress is looked at: two reads, one of
\* them suspending in the signing call, an add and a remove.
ProgressCalls ==
    {[op |-> "has_signer", arg |-> address(1)],
     [op |-> "sign_hash", arg |-> address(1)],
     [op |-> "add_signer", arg |-> 1],
     [op |-> "remove_signer", arg |-> address(1)]}

NextProgress ==
    \/ \E t \in Tasks, call \in ProgressCalls : Request(t, call)
    \/ \E t \in Tasks : SignSuspend(t)
    \/ \E t \in Tasks : Complete(t)

SpecLockFair == InitLock /\ [][NextProgress]_vars /\ LockFairness

----------------------------------------------------------------------------
(* The in-turn producer and a validator on a growing chain *)

\* The chain is followed up to this height.
MaxHeight == 4

\* Authority sets of one to three signers, all with credentials in the
\* producers' key store.
ProducerConfigs ==
    {[signers |-> SubSeq(DevSigners, 1, k), period |-> p, epoch |-> 3] :
        k \in 1..3, p \in Periods}

\* GenesisConfig::gas_limit: a usual limit, and the largest u64.
GenesisGasLimits == {1024, U64Max}

InitProduce ==
    /\ chain_spec \in ProducerConfigs
    /\ overflow_checks \in BOOLEAN
    /\ keys = KeysOf({1, 2, 3})
    /\ \E g \in GenesisGasLimits, s \in SignerLists :
          LET genesis == make_genesis_header(create_genesis(
                            [signers |-> s, vanity |-> Zeros(32),
                             gas_limit |-> g]))
          IN /\ parent = seal_slow(genesis)
             /\ header = genesis
    /\ sealer = None
    /\ seal_count = 0
    /\ last = NoCall
    /\ lock = Unlocked
    /\ tasks = NoTasks
    /\ chain = <<parent.header>>

\* The producer whose turn it is builds the next header on the parent and
\* has it sealed with its key.
ProduceBlock(vanity) ==
    LET number == parent.header.number + 1
        signer == expected_signer(chain_spec, number)
        candidate == NextHeader(parent, chain_spec, number, 1,
                                vanity \o Zeros(EXTRA_SEAL_LENGTH))
    IN /\ number <= MaxHeight
       /\ signer # None
       /\ LET res == seal_header(keys, candidate, signer[1])
          IN /\ header' = IF res.ok THEN res.val ELSE header
             /\ sealer' = IF res.ok THEN signer ELSE sealer
             /\ seal_count' = IF res.ok THEN 1 ELSE seal_count
             /\ last' = Call("seal_header", signer[1], res)
       /\ UNCHANGED <<lock, tasks, chain_spec, overflow_checks, keys, parent,
                      chain>>

\* The validator has validated the candidate and takes it as the parent of
\* the next one.
AcceptHeader ==
    /\ last.op \in {"validate", "validate_header_against_parent"}
    /\ last.res.ok
    /\ parent' = seal_slow(header)
    /\ chain' = Append(chain, header)
    /\ last' = Call("accept", <<>>, Ok(<<>>))
    /\ UNCHANGED <<lock, tasks, chain_spec, overflow_checks, keys, header,
                   sealer, seal_count>>

NextProduce ==
    \/ \E vanity \in Vanities : ProduceBlock(vanity)
    \/ Validate
    \/ RecoverSigner
    \/ AcceptHeader

SpecProduce == InitProduce /\ [][NextProduce]_vars

----------------------------------------------------------------------------
(* Chains of headers accepted by validate_header_against_parent *)

\* The chain is followed up to this number of headers.
MaxChain == 3

\* The chain starts at any of the parents, under either block period and
\* either build.
InitChain ==
    /\ \E period \in Periods : chain_spec = [DevChainSpec EXCEPT !.period = period]
    /\ overflow_checks \in BOOLEAN
    /\ keys = EmptyKeys
    /\ \E f \in ParentFields : parent = ParentOf(f)
    /\ header = parent.header
    /\ sealer = None
    /\ seal_count = 0
    /\ last = NoCall
    /\ lock = Unlocked
    /\ tasks = NoTasks
    /\ chain = <<parent.header>>

\* The candidates offered on the head p of a chain: those of Candidates
\* that have the next number and the parent's hash, with every timestamp
\* and gas limit, and those with another number or hash that keep the
\* parent's gas limit.
ChainCandidates(p, period) ==
    {h \in Candidates(p, period) :
        \/ h.number = p.header.number + 1 /\ h.parent_hash = p.hash
        \/ h.gas_limit = p.header.gas_limit}

\* A candidate h arrives for the head of the chain.
OfferHeader(h) ==
    /\ Len(chain) < MaxChain
    /\ header' = h
    /\ last' = Call("offer", <<>>, Ok(<<>>))
    /\ UNCHANGED <<lock, tasks, chain_spec, overflow_checks, keys, parent,
                   sealer, seal_count, chain>>

NextChain ==
    \/ \E h \in ChainCandidates(parent, block_period(chain_spec)) :
          OfferHeader(h)
    \/ ValidateAgainstParent
    \/ AcceptHeader

SpecChain == InitChain /\ [][NextChain]_vars

----------------------------------------------------------------------------
(* The checks of Consensus and FullConsensus that stand alone *)

\* Nonces of the received headers: zero, the vote nonce, and another.
Nonces == {Zeros(8), [i \in 1..8 |-> 255], <<0, 0, 0, 0, 0, 0, 0, 1>>}

\* Block bodies, as the transactions they list; none of them is made to
\* match the header.
Bodies == {<<>>, <<1>>, <<1, 2>>}

\* Execution results, as the gas used and the receipts' statuses, and what
\* the caller passes as receipt root and bloom.
ExecutionResults ==
    {[gas_used |-> 0, receipts |-> <<>>],
     [gas_used |-> U64Max, receipts |-> <<FALSE>>]}
ReceiptRootBlooms == {None, Some(<<0, 0>>)}

\* The candidate header with the nonce n.
WithNonce(h, n) ==
    [number |-> h.number, parent_hash |-> h.parent_hash,
     timestamp |-> h.timestamp, gas_limit |-> h.gas_limit,
     difficulty |-> h.difficulty, extra_data |-> h.extra_data, nonce |-> n]

\* The candidate arrives with the nonce n.
SetNonce(n) ==
    /\ header' = WithNonce(header, n)
    /\ sealer' = None
    /\ seal_count' = 0
    /\ last' = Call("nonce", <<>>, Ok(<<>>))
    /\ UNCHANGED <<lock, tasks, chain_spec, overflow_checks, keys, parent,
                   chain>>

ValidateHeader ==
    /\ last' = Call("validate_header", <<>>, validate_header(header))
    /\ UNCHANGED <<lock, tasks, chain_spec, overflow_checks, keys, parent,
                   header, sealer, seal_count, chain>>

ValidateBodyAgainstHeader(body) ==
    /\ last' = Call("validate_body_against_header", body,
                    validate_body_against_header(body, seal_slow(header)))
    /\ UNCHANGED <<lock, tasks, chain_spec, overflow_checks, keys, parent,
                   header, sealer, seal_count, chain>>

ValidateBlockPreExecution(body) ==
    /\ last' = Call("validate_block_pre_execution", body,
                    validate_block_pre_execution(
                        [header |-> seal_slow(header), body |-> body]))
    /\ UNCHANGED <<lock, tasks, chain_spec, overflow_checks, keys, parent,
                   header, sealer, seal_count, chain>>

ValidateBlockPostExecution(body, result, receipt_root_bloom) ==
    /\ last' = Call("validate_block_post_execution",
                    <<body, result, receipt_root_bloom>>,
                    validate_block_post_execution(
                        [header |-> seal_slow(header), body |-> body],
                        result, receipt_root_bloom))
    /\ UNCHANGED <<lock, tasks, chain_spec, overflow_checks, keys, parent,
                   header, sealer, seal_count, chain>>

NextStandalone ==
    \/ \E n \in {parent.header.number + 1, parent.header.number + 2},
          d \in Difficulties, e \in ExtraDatas : BuildHeader(n, d, e)
    \/ \E n \in Nonces : SetNonce(n)
    \/ \E s \in ForgedSeals : ForgeSeal(s)
    \/ ValidateHeader
    \/ ValidateAgainstParent
    \/ \E body \in Bodies : ValidateBodyAgainstHeader(body)
    \/ \E body \in Bodies : ValidateBlockPreExecution(body)
    \/ \E body \in Bodies, result \in ExecutionResults,
          receipt_root_bloom \in ReceiptRootBlooms :
            ValidateBlockPostExecution(body, result, receipt_root_bloom)

SpecStandalone == Init /\ [][NextStandalone]_vars

----------------------------------------------------------------------------
(* Claims *)

MinExtraData == EXTRA_VANITY_LENGTH + EXTRA_SEAL_LENGTH

\* The last EXTRA_SEAL_LENGTH bytes of a byte string that has them.
SealOf(extra_data) ==
    SubSeq(extra_data, Len(extra_data) - EXTRA_SEAL_LENGTH + 1, Len(extra_data))

\* h2 is h1 with other bytes in the last EXTRA_SEAL_LENGTH bytes of its metadata.
SameButSeal(h1, h2) ==
    /\ Len(h1.extra_data) >= EXTRA_SEAL_LENGTH
    /\ Len(h2.extra_data) = Len(h1.extra_data)
    /\ SubSeq(h2.extra_data, 1, Len(h2.extra_data) - EXTRA_SEAL_LENGTH)
         = SubSeq(h1.extra_data, 1, Len(h1.extra_data) - EXTRA_SEAL_LENGTH)
    /\ [h2 EXCEPT !.extra_data = <<>>] = [h1 EXCEPT !.extra_data = <<>>]

\* C1: a header whose recovered signer is not in the signer list is rejected
\* by header validation with UnauthorizedSigner.
C1_UnauthorizedSignerRejected ==
    (/\ last.op = "validate"
     /\ recover_signer(header).ok
     /\ ~is_authorized_signer(chain_spec, recover_signer(header).val))
        => last.res = Err("UnauthorizedSigner")

\* C2: header validation accepts a header only with difficulty 1 when its
\* signer is expected_signer(header.number) and difficulty 2 otherwise.
C2_AcceptedDifficultyMatchesTurn ==
    (/\ last.op = "validate"
     /\ last.res.ok
     /\ recover_signer(header).ok)
        => header.difficulty =
             (IF expected_signer(chain_spec, header.number)
                    = Some(recover_signer(header).val)
              THEN 1 ELSE 2)

C4_SealHashIgnoresSeal ==
    /\ [](Len(header.extra_data) < EXTRA_SEAL_LENGTH
            => /\ PoaConsensus_seal_hash(header) = hash_slow(header)
               /\ BlockSealer_seal_hash(header) = hash_slow(header))
    /\ [][SameButSeal(header, header')
            => /\ PoaConsensus_seal_hash(header') = PoaConsensus_seal_hash(header)
               /\ BlockSealer_seal_hash(header') = BlockSealer_seal_hash(header)]_vars

C4_Witness ==
    /\ last.op = "forge"
    /\ Len(header.extra_data) > MinExtraData
    /\ SealOf(header.extra_data) # Zeros(EXTRA_SEAL_LENGTH)

\* C5: sealing a header that seal_header returned leaves its seal hash
\* unchanged.
C5_ResealKeepsSealHash ==
    [][(sealer # None /\ last'.op = "seal_header" /\ last'.res.ok)
            => BlockSealer_seal_hash(header') = BlockSealer_seal_hash(header)]_vars

C5_Witness ==
    /\ last.op = "seal_header"
    /\ last.res.ok
    /\ seal_count = 2

\* C6: expected_signer(n) is None exactly when the signer list is empty and
\* otherwise the signer at n mod len(signers).
C6_ExpectedSignerRoundRobin ==
    last.op = "expected_signer"
        => /\ (last.res = None) <=> (Len(chain_spec.signers) = 0)
           /\ Len(chain_spec.signers) > 0
                => last.res = Some(chain_spec.signers[
                                    (last.arg % Len(chain_spec.signers)) + 1])

C6_Witness ==
    /\ last.op = "expected_signer"
    /\ last.arg = U64Max
    /\ Len(chain_spec.signers) = 3
    /\ last.res # None

C8_EpochBlock ==
    last.op = "is_epoch_block"
        => /\ last.res.ok
           /\ last.arg = 0 => last.res.val = TRUE
           /\ chain_spec.epoch # 0
                => last.res.val = (last.arg % chain_spec.epoch = 0)

\* C9: recover_signer fails with ExtraDataTooShort exactly on the headers
\* whose metadata has fewer than 97 bytes.
C9_TooShortBelow97 ==
    last.op = "recover_signer"
        => ((last.res.err = "ExtraDataTooShort")
                <=> (Len(header.extra_data) < 97))

C9_Witness ==
    /\ last.op = "recover_signer"
    /\ Len(header.extra_data) = 96
    /\ sealer # None
    /\ last.res.err = "ExtraDataTooShort"

\* C10: a header whose signer cannot be recovered is rejected by header
\* validation with the recovery error.
C10_UnrecoverableRejected ==
    (last.op = "validate" /\ ~recover_signer(header).ok)
        => last.res = recover_signer(header)

\* C11: validate_header_against_parent fails with ParentBlockNumberMismatch
\* when header.number is not parent.number + 1 (parent.number at the top of
\* u64 included), and otherwise with ParentHashMismatch when
\* header.parent_hash is not the parent's hash.
C11_Linkage ==
    last.op = "validate_header_against_parent" =>
        IF header.number # parent.header.number + 1
        THEN last.res = Err("ParentBlockNumberMismatch")
        ELSE (header.parent_hash # parent.hash
                => last.res = Err("ParentHashMismatch"))

\* The candidate is linked to the parent: the next number, the parent's hash.
Linked ==
    /\ header.number = parent.header.number + 1
    /\ header.parent_hash = parent.hash

\* C12: a linked header fails with TimestampTooEarly exactly when
\* header.timestamp < parent.timestamp + period, the sum taken as a
\* mathematical integer, for all u64 timestamps and periods.
C12_Timing ==
    (last.op = "validate_header_against_parent" /\ Linked) =>
        (last.res = Err("TimestampTooEarly")
            <=> header.timestamp
                    < parent.header.timestamp + block_period(chain_spec))

\* The candidate is not earlier than the period allows.
Timely ==
    header.timestamp >= parent.header.timestamp + block_period(chain_spec)

\* C13: with max_delta = parent.gas_limit / 1024, a linked and timely header
\* is rejected with GasLimitInvalidIncrease exactly when its gas limit is
\* above parent.gas_limit + max_delta, with GasLimitInvalidDecrease exactly
\* when it is below parent.gas_limit - max_delta, and accepted otherwise,
\* for all u64 gas limits.
C13_GasLimitDrift ==
    (last.op = "validate_header_against_parent" /\ Linked /\ Timely) =>
        LET max_delta == parent.header.gas_limit \div 1024
        IN /\ last.res = Err("GasLimitInvalidIncrease")
                <=> header.gas_limit > parent.header.gas_limit + max_delta
           /\ last.res = Err("GasLimitInvalidDecrease")
                <=> header.gas_limit < parent.header.gas_limit - max_delta
           /\ last.res.ok
                <=> /\ header.gas_limit <= parent.header.gas_limit + max_delta
                    /\ header.gas_limit >= parent.header.gas_limit - max_delta

\* The signer list of the candidate's metadata is a whole number of 20-byte
\* identities between the vanity and the seal.
WellFormedSignerList ==
    /\ Len(header.extra_data) >= MinExtraData
    /\ (Len(header.extra_data) - MinExtraData) % ADDRESS_LENGTH = 0

\* C14: a header whose number is an epoch boundary is accepted only if its
\* embedded signer list is well-formed and non-empty, and fails with
\* InvalidSignerList otherwise.
C14_EpochBoundarySignerList ==
    (/\ last.op = "validate"
     /\ is_epoch_block(chain_spec, header.number) = Ok(TRUE)
     /\ ~(WellFormedSignerList /\ Len(header.extra_data) > MinExtraData))
        => last.res = Err("InvalidSignerList")

\* C15: extract_signers_from_epoch_block returns InvalidSignerList for every
\* metadata length L below 97 or with (L - 97) mod 20 # 0.
C15_InvalidSignerList ==
    (last.op = "extract_signers_from_epoch_block" /\ ~WellFormedSignerList)
        => last.res = Err("InvalidSignerList")

\* C16: on metadata of length 97 + 20*N the extraction succeeds with exactly
\* N identities, the i-th (from 0) being the bytes [32 + 20*i, 52 + 20*i) of
\* the metadata (sequences are indexed from 1 here).
C16_ExtractsEmbeddedSigners ==
    (last.op = "extract_signers_from_epoch_block" /\ WellFormedSignerList) =>
        LET N == (Len(header.extra_data) - 97) \div 20
        IN /\ last.res.ok
           /\ Len(last.res.val) = N
           /\ \A i \in 0..(N - 1) :
                /\ Len(last.res.val[i + 1]) = 20
                /\ \A j \in 1..20 :
                     last.res.val[i + 1][j] = header.extra_data[32 + 20 * i + j]

\* Two different identities were extracted from metadata of length 137.
C16_Witness ==
    /\ last.op = "extract_signers_from_epoch_block"
    /\ Len(header.extra_data) = 137
    /\ last.res.ok
    /\ Len(last.res.val) = 2
    /\ last.res.val[1] # last.res.val[2]

\* The metadata of the genesis header just created is the configured vanity,
\* the configured signers in order, and 65 zero bytes.
GenesisLayout ==
    last.op = "create_genesis" =>
        LET config == last.arg
            N == Len(config.signers)
            extra_data == header.extra_data
        IN /\ Len(extra_data) = 32 + 20 * N + 65
           /\ \A j \in 1..32 : extra_data[j] = config.vanity[j]
           /\ \A i \in 1..N : \A j \in 1..20 :
                extra_data[32 + 20 * (i - 1) + j] = config.signers[i][j]
           /\ \A j \in 1..65 : extra_data[32 + 20 * N + j] = 0

\* Extraction from the metadata create_genesis has just produced.
GenesisRoundTrip ==
    (last.op = "create_genesis"
        /\ last'.op = "extract_signers_from_epoch_block")
        => last'.res = Ok(last.arg.signers)

\* C17: for every GenesisConfig with N signers, create_genesis produces
\* metadata of 32 + 20*N + 65 bytes (vanity, the signers in configured
\* order, 65 zero bytes), and extract_signers_from_epoch_block on it returns
\* the configured signer list in the same order.
C17_GenesisRoundTrip == []GenesisLayout /\ [][GenesisRoundTrip]_vars

\* The three dev signers were extracted from a genesis header with a
\* non-zero vanity.
C17_Witness ==
    /\ last.op = "extract_signers_from_epoch_block"
    /\ header.number = 0
    /\ header.extra_data[1] # 0
    /\ Len(header.extra_data) = 32 + 20 * 3 + 65
    /\ last.res = Ok(DevSigners)

\* C18: recover_signer, extract_signers_from_epoch_block, is_epoch_block and
\* header validation return Ok or an error value for every header, parent,
\* period, epoch length and metadata length; none of them panics.
C18_NeverPanics ==
    last.op \in {"recover_signer", "extract_signers_from_epoch_block",
                 "is_epoch_block", "validate",
                 "validate_header_against_parent"}
        => last.res # Panic

\* The identities registered in the key store.
Registered == DOMAIN keys

\* Which call was last made and whether it succeeded, ahead of the
\* variables: a step is a stuttering step when none of them changes.
called_vars == <<last.op, last.res.ok, vars>>

\* What the lookups answer in the state they are made in.
KeyStoreLookups ==
    /\ last.op = "has_signer" => last.res = Ok(last.arg \in Registered)
    /\ last.op = "signer_addresses" =>
          /\ last.res.ok
          /\ {last.res.val[i] : i \in DOMAIN last.res.val} = Registered
          /\ Len(last.res.val) = Cardinality(Registered)

\* What each call does to the registered identities: a successful add
\* registers its identity, a remove unregisters its identity and reports
\* whether it was registered, and nothing else changes the set.
KeyStoreMutations ==
    /\ last'.op \in {"add_signer", "add_signer_from_hex"} =>
          IF last'.res.ok
          THEN Registered' = Registered \cup {last'.res.val}
          ELSE Registered' = Registered
    /\ last'.op = "remove_signer" =>
          /\ Registered' = Registered \ {last'.arg}
          /\ last'.res = Ok(last'.arg \in Registered)
    /\ last'.op \notin {"add_signer", "add_signer_from_hex", "remove_signer"}
          => Registered' = Registered

\* C19: after any sequence of add_signer, add_signer_from_hex, remove_signer
\* and sign_hash calls, has_signer(id) holds exactly when the last
\* successful add or remove of id was an add, signer_addresses() is that set
\* with each identity once, and remove_signer(id) returns true exactly when
\* id was registered just before the call.
C19_KeyStoreVisibility ==
    []KeyStoreLookups /\ [][KeyStoreMutations]_called_vars

\* Two of the three identities are registered, and the listing holds each
\* of the two once.
C19_Witness ==
    /\ last.op = "signer_addresses"
    /\ last.res = Ok(<<address(1), address(2)>>)
    /\ keys = KeysOf({1, 2})

\* sign_hash and seal_header on an unregistered identity fail with
\* NoSignerForAddress(id).
UnregisteredRefused ==
    (last.op \in {"sign_hash", "seal_header"} /\ last.arg \notin Registered)
        => last.res = ErrOf("NoSignerForAddress", last.arg)

\* sign_hash and seal_header leave the registered identities alone, and a
\* failed seal_header returns no header: the candidate stays as it was.
SigningKeepsKeys ==
    last'.op \in {"sign_hash", "seal_header"} =>
        /\ keys' = keys
        /\ (~last'.res.ok => header' = header)

\* C20: sign_hash(id, hash) fails with NoSignerForAddress(id) whenever id is
\* not registered, seal_header propagates that error without returning a
\* header, and neither call, successful or failed, changes the set of
\* registered identities.
C20_NoSignerForAddress ==
    []UnregisteredRefused /\ [][SigningKeepsKeys]_called_vars

\* seal_header was refused for an unregistered identity while other
\* identities were registered.
C20_Witness ==
    /\ last.op = "seal_header"
    /\ last.arg \notin Registered
    /\ Registered # {}
    /\ last.res = ErrOf("NoSignerForAddress", last.arg)

\* Task t holds a guard of the credential map: it is between the return of
\* read().await or write().await and the drop of the guard, which is when
\* it reads or changes the map.
Accessing(t) == tasks[t].pc \in {"holding", "signing"}
Writing(t) == Accessing(t) /\ lock_mode(tasks[t].op) = "write"
Reading(t) == Accessing(t) /\ lock_mode(tasks[t].op) = "read"

\* C21: in every interleaving of concurrent calls, while an add or a remove
\* accesses the credential map no other call, read or write, accesses it:
\* the mutation starts after every in-flight read has dropped its guard and
\* no read sees the map while it is being changed.
C21_ReaderWriterDiscipline ==
    \A w \in Tasks : Writing(w) => \A t \in Tasks \ {w} : ~Accessing(t)

\* A remove holds the map while a read and another write wait for it.
C21_Witness ==
    \E w, r, x \in Tasks :
        /\ Writing(w) /\ tasks[w].op = "remove_signer"
        /\ tasks[r].pc = "waiting" /\ lock_mode(tasks[r].op) = "read"
        /\ tasks[x].pc = "waiting" /\ lock_mode(tasks[x].op) = "write"

ReadOps == {"has_signer", "signer_addresses", "sign_hash"}
WriteOps == {"add_signer", "add_signer_from_hex", "remove_signer"}

\* Task t is in a call: waiting for its guard or holding it.
InCall(t) == tasks[t].pc # "idle"

\* C22: a sign_hash call never holds the write guard, suspended in the
\* signing call or not, and while no add or remove is in progress or
\* waiting, every has_signer, signer_addresses and sign_hash call that has
\* been made is in progress: none of them waits for another.
C22_SignSharesLock ==
    /\ \A t \in Tasks : tasks[t].op = "sign_hash" => t \notin lock.writer
    /\ (\A w \in Tasks : ~(InCall(w) /\ tasks[w].op \in WriteOps))
          => \A t \in Tasks :
                (InCall(t) /\ tasks[t].op \in ReadOps) => Accessing(t)

\* Two sign_hash calls for different identities are suspended in the signing
\* call while a third task lists the identities.
C22_Witness ==
    \E s1, s2, r \in Tasks :
        /\ tasks[s1].op = "sign_hash" /\ tasks[s1].pc = "signing"
        /\ tasks[s2].op = "sign_hash" /\ tasks[s2].pc = "signing"
        /\ tasks[s1].arg # tasks[s2].arg
        /\ tasks[r].op = "signer_addresses" /\ tasks[r].pc = "holding"

\* What a successful seal_header keeps of its input header.
SealKeepsHeader ==
    (last'.op = "seal_header" /\ last'.res.ok) =>
        LET old == header.extra_data
            new == header'.extra_data
        IN /\ header'.number = header.number
           /\ header'.parent_hash = header.parent_hash
           /\ header'.timestamp = header.timestamp
           /\ header'.gas_limit = header.gas_limit
           /\ header'.difficulty = header.difficulty
           /\ header' = last'.res.val
           /\ IF Len(old) >= 65
              THEN /\ Len(new) = Len(old)
                   /\ SubSeq(new, 1, Len(old) - 65) = SubSeq(old, 1, Len(old) - 65)
              ELSE /\ Len(new) = Len(old) + 65
                   /\ SubSeq(new, 1, Len(old)) = old

\* C23: seal_header changes nothing but the seal. With at least 65 bytes of
\* metadata the returned header has the same metadata length, the same
\* first len - 65 metadata bytes and the same other fields, so that sealing
\* again keeps the length; with fewer than 65 bytes the whole metadata is
\* kept as a prefix and the length grows by 65.
C23_SealChangesOnlySeal == [][SealKeepsHeader]_called_vars

\* A header with 64 bytes of metadata was sealed: 64 + 65 bytes.
C23_Witness ==
    /\ last.op = "seal_header"
    /\ last.res.ok
    /\ Len(header.extra_data) = 64 + 65
    /\ SubSeq(header.extra_data, 1, 64) = Zeros(64)

\* C24: every header returned by seal_header, for any input header, and
\* every genesis produced by create_genesis has at least 97 bytes of
\* metadata.
C24_MetadataAtLeast97 ==
    /\ (last.op = "seal_header" /\ last.res.ok)
          => Len(last.res.val.extra_data) >= 97
    /\ last.op = "create_genesis" => Len(header.extra_data) >= 97

\* C25: the signer list of every authority set that can be constructed names
\* no identity twice, so that over one round of len(signers) consecutive
\* block numbers each authorized signer is the expected signer exactly once.
C25_SignersUnique ==
    last.op = "expected_signer" =>
        LET list == signers(chain_spec)
        IN /\ \A i, j \in 1..Len(list) : i # j => list[i] # list[j]
           /\ \A i \in 1..Len(list) :
                Cardinality({n \in 0..(Len(list) - 1) :
                    expected_signer(chain_spec, n) = Some(list[i])}) = 1

\* The candidate is the header the in-turn producer built on the parent and
\* sealed: the next number, the parent's hash, the earliest timestamp, the
\* parent's gas limit, difficulty 1, a vanity and the seal of the expected
\* signer.
InTurnCandidate ==
    /\ Linked
    /\ header.timestamp = parent.header.timestamp + block_period(chain_spec)
    /\ header.gas_limit = parent.header.gas_limit
    /\ header.difficulty = 1
    /\ Len(header.extra_data) = MinExtraData
    /\ sealer # None
    /\ sealer = expected_signer(chain_spec, header.number)

\* C26: the header built by the in-turn producer on an accepted parent and
\* sealed by expected_signer(number) is accepted by a validator with the
\* same authority set, and the validator recovers expected_signer(number)
\* from it.
C26_ProducerValidatorAgree ==
    InTurnCandidate =>
        /\ last.op = "validate" => last.res.ok
        /\ last.op = "recover_signer"
              => Some(last.res.val) = expected_signer(chain_spec, header.number)

\* The rules of validate_header_against_parent in the order of the code,
\* each as the condition under which the candidate breaks it.
NumberRuleBroken == header.number # parent.header.number + 1
HashRuleBroken == header.parent_hash # parent.hash
TimestampRuleBroken ==
    header.timestamp < parent.header.timestamp + block_period(chain_spec)
IncreaseRuleBroken ==
    header.gas_limit
        > parent.header.gas_limit + parent.header.gas_limit \div 1024
DecreaseRuleBroken ==
    header.gas_limit
        < parent.header.gas_limit - parent.header.gas_limit \div 1024

\* The error of the first rule the candidate breaks, Ok when it breaks none.
FirstBrokenRule ==
    IF NumberRuleBroken THEN Err("ParentBlockNumberMismatch")
    ELSE IF HashRuleBroken THEN Err("ParentHashMismatch")
    ELSE IF TimestampRuleBroken THEN Err("TimestampTooEarly")
    ELSE IF IncreaseRuleBroken THEN Err("GasLimitInvalidIncrease")
    ELSE IF DecreaseRuleBroken THEN Err("GasLimitInvalidDecrease")
    ELSE Ok(<<>>)

\* C27: when a candidate breaks several rules, validate_header_against_parent
\* reports the first broken rule in the order number linkage, parent-hash
\* linkage, timestamp, gas-limit increase, gas-limit decrease, and no later
\* rule is evaluated.
C27_FirstBrokenRuleReported ==
    last.op = "validate_header_against_parent" => last.res = FirstBrokenRule

\* The recorded verdict is the verdict of the same call made again now.
SameVerdictAgain ==
    /\ last.op = "recover_signer" => last.res = recover_signer(header)
    /\ last.op = "validate"
          => last.res = validate_header_against_parent(chain_spec, header,
                                                       parent, overflow_checks)

\* Validation and recovery leave their inputs as they were.
ValidationKeepsInputs ==
    last'.op \in {"recover_signer", "validate"} =>
        /\ header' = header
        /\ parent' = parent
        /\ chain_spec' = chain_spec

task_vars ==
    <<[t \in Tasks |-> tasks[t].pc], [t \in Tasks |-> tasks[t].op],
      called_vars>>

\* No task asks for, or holds, the write guard for a string that does not
\* parse.
UnparsedNeverLocks ==
    \A t \in Tasks :
        (InCall(t) /\ tasks[t].op = "add_signer_from_hex")
            => parse_private_key(tasks[t].arg) # None

\* The step by which add_signer_from_hex returns: with InvalidPrivateKey
\* when the string does not parse, the lock, the tasks' places and the
\* credential map as they were; with the address of the parsed key
\* otherwise, that address registered with that key afterwards.
AddFromHexReturns ==
    (last'.op = "add_signer_from_hex" /\ last' # last) =>
        LET signer == parse_private_key(last'.arg)
        IN IF signer = None
           THEN /\ last'.res = Err("InvalidPrivateKey")
                /\ lock' = lock
                /\ \A t \in Tasks : tasks'[t].pc = tasks[t].pc
                /\ keys' = keys
           ELSE /\ last'.res = Ok(address(signer[1]))
                /\ address(signer[1]) \in DOMAIN keys'
                /\ keys'[address(signer[1])] = signer[1]
                /\ \A a \in DOMAIN keys : a \in DOMAIN keys'

\* C29: add_signer_from_hex with a secret that does not parse returns
\* InvalidPrivateKey without acquiring the write lock and leaves the
\* registered identities unchanged; with a valid secret it returns the
\* identity of that credential, which is registered afterwards.
C29_AddFromHex == []UnparsedNeverLocks /\ [][AddFromHexReturns]_task_vars

\* An unparsable string was refused while another task held the write
\* guard, and nothing was registered.
C29_Witness ==
    /\ last.op = "add_signer_from_hex"
    /\ last.res = Err("InvalidPrivateKey")
    /\ lock.writer # {}
    /\ DOMAIN keys = {address(1)}

\* A read that is requested while an add or a remove waits or is active does
\* not get its guard in that step, and a waiting read gets it only when no
\* add or remove that held the guard is still active and none waits.
ReadsHeldBack ==
    \A t \in Tasks :
        /\ (tasks[t].pc = "idle" /\ InCall(t)' /\ tasks'[t].op \in ReadOps
              /\ \E w \in Tasks : InCall(w) /\ tasks[w].op \in WriteOps)
                => tasks'[t].pc = "waiting"
        /\ (tasks[t].pc = "waiting" /\ tasks[t].op \in ReadOps
              /\ tasks'[t].pc = "holding")
                => \A w \in Tasks :
                      Writing(w) => tasks'[w].pc = "idle"

\* Every add or remove that has been requested gets the write guard and
\* returns.
WritersComplete ==
    \A t \in Tasks :
        (InCall(t) /\ tasks[t].op \in WriteOps) ~> (tasks[t].pc = "idle")

\* C30: under fair scheduling, with every read in flight finishing, every
\* add_signer or remove_signer request gets exclusive access and completes
\* even when new reads keep arriving, and reads that arrive while a writer
\* waits or is active are held back until that writer completes.
C30_WriterProgress == [][ReadsHeldBack]_task_vars /\ WritersComplete

\* An add waits for the guard behind a suspended sign_hash, and a read that
\* arrived after it waits too.
C30_Witness ==
    \E w, s, r \in Tasks :
        /\ tasks[w].pc = "waiting" /\ tasks[w].op = "add_signer"
        /\ tasks[s].pc = "signing"
        /\ tasks[r].pc = "waiting" /\ tasks[r].op = "has_signer"
        /\ Len(lock.queue) = 2
        /\ lock.queue[1].task = w

\* While a sign_hash call is suspended in the signing call, its identity is
\* registered with the credential the call holds, that credential is the
\* identity's own, and no remove_signer of that identity accesses the map.
SigningHoldsCredential ==
    \A t \in Tasks :
        tasks[t].pc = "signing" =>
            /\ tasks[t].arg \in DOMAIN keys
            /\ tasks[t].signer = Some(keys[tasks[t].arg])
            /\ address(keys[tasks[t].arg]) = tasks[t].arg
            /\ \A w \in Tasks :
                  (tasks[w].op = "remove_signer"
                      /\ tasks[w].arg = tasks[t].arg) => ~Accessing(w)

\* A sign_hash call that returns without having been suspended found its
\* identity absent and returns NoSignerForAddress; one that returns from
\* the signing call returns the signature of the credential registered for
\* its identity, from which the identity is recovered.
SignHashReturns ==
    \A t \in Tasks :
        (tasks[t].op = "sign_hash" /\ Accessing(t) /\ tasks'[t].pc = "idle")
            => /\ last'.op = "sign_hash"
               /\ last'.arg = tasks[t].arg
               /\ keys' = keys
               /\ IF tasks[t].pc = "holding"
                  THEN /\ tasks[t].arg \notin DOMAIN keys
                       /\ last'.res =
                             ErrOf("NoSignerForAddress", tasks[t].arg)
                  ELSE /\ tasks[t].arg \in DOMAIN keys
                       /\ last'.res =
                             Ok(ecdsa_sign(keys[tasks[t].arg], LockHash))
                       /\ recover_address_from_prehash(last'.res.val,
                                                       LockHash)
                             = Some(tasks[t].arg)

\* C31: in every interleaving, a sign_hash(id, hash) call either fails with
\* NoSignerForAddress(id), id being absent when it looked it up under the
\* read guard, or returns a signature made with the credential registered
\* for id; no remove_signer(id) completes between the lookup and the end of
\* the signing call, and no signature is made with the credential of
\* another identity.
C31_SignAtomic ==
    []SigningHoldsCredential /\ [][SignHashReturns]_task_vars

\* A sign_hash has returned a signature while another is suspended in the
\* signing call for the same identity and a remove_signer of that identity
\* waits for the guard.
C31_Witness ==
    \E s, w \in Tasks :
        /\ last.op = "sign_hash"
        /\ last.res.ok
        /\ last.arg = address(1)
        /\ tasks[s].pc = "signing" /\ tasks[s].arg = address(1)
        /\ tasks[w].pc = "waiting" /\ tasks[w].op = "remove_signer"
        /\ tasks[w].arg = address(1)

\* The headers of the chain are numbered one after the other from the
\* first, each names the hash of the one before it, and the timestamp of
\* each is at least the first timestamp and one block period for every
\* header since.
ChainInvariant ==
    \A i \in 1..Len(chain) :
        /\ chain[i].number = chain[1].number + (i - 1)
        /\ i > 1 => chain[i].parent_hash = hash_slow(chain[i - 1])
        /\ chain[i].timestamp >=
              chain[1].timestamp + (i - 1) * block_period(chain_spec)

\* C32: along any sequence h0, ..., hn in which each header was accepted
\* by validate_header_against_parent on the one before it, h(i).number is
\* h0.number + i, h(i+1).parent_hash is the hash of h(i), and h(i).timestamp
\* is at least h0.timestamp + i * period.
C32_ChainInvariant == ChainInvariant

\* The gas limit of child h is within parent_gas_limit / 1024 of the gas
\* limit of parent p, the quotient rounded down; below 1024 that is 0.
GasLimitWithin(h, p) ==
    LET max_delta == p.gas_limit \div 1024
    IN /\ h.gas_limit - p.gas_limit <= max_delta
       /\ p.gas_limit - h.gas_limit <= max_delta
       /\ p.gas_limit < 1024 => h.gas_limit = p.gas_limit

\* C33: every child accepted by validate_header_against_parent has a gas
\* limit within parent.gas_limit / 1024 of its parent's; on a parent whose
\* gas limit is below 1024 the only gas limit accepted is the parent's, and
\* along a chain of accepted headers a gas limit below 1024 stays as it is.
C33_GasLimitFreeze ==
    /\ (last.op = "validate_header_against_parent" /\ last.res.ok)
          => GasLimitWithin(header, parent.header)
    /\ \A i \in 2..Len(chain) : GasLimitWithin(chain[i], chain[i - 1])
    /\ \A i, j \in 1..Len(chain) :
          (i < j /\ chain[i].gas_limit < 1024)
              => chain[j].gas_limit = chain[i].gas_limit

\* On a chain that has kept the gas limit 1000 a child with gas limit 1001,
\* and all else as the rules ask, has been refused.
C33_Witness ==
    /\ Len(chain) >= 2
    /\ \A i \in 1..Len(chain) : chain[i].gas_limit = 1000
    /\ header.gas_limit = 1001
    /\ last = Call("validate_header_against_parent", <<>>,
                   Err("GasLimitInvalidIncrease"))

\* Two results are both failures, or both the same value.
SameOutcome(a, b) == a.ok = b.ok /\ (a.ok => a.val = b.val)

\* C34: PoaConsensus::seal_hash and BlockSealer::seal_hash return the same
\* hash for every header, and on a header with at least 97 metadata bytes
\* PoaConsensus::recover_signer and BlockSealer::verify_signature both fail
\* or both return the same identity.
C34_RecoveryAgrees ==
    /\ PoaConsensus_seal_hash(header) = BlockSealer_seal_hash(header)
    /\ Len(header.extra_data) >= MinExtraData =>
          /\ last.op = "recover_signer"
                => SameOutcome(last.res, verify_signature(header))
          /\ last.op = "verify_signature"
                => SameOutcome(last.res, recover_signer(header))

\* recover_signer has returned an identity from a forged seal whose parity
\* byte is 27, on a header that no registered credential sealed.
C34_Witness ==
    /\ last.op = "recover_signer"
    /\ last.res.ok
    /\ sealer = None
    /\ Len(header.extra_data) >= MinExtraData
    /\ header.extra_data[Len(header.extra_data)] = 27

StandaloneChecks ==
    {"validate_header", "validate_body_against_header",
     "validate_block_pre_execution", "validate_block_post_execution"}

====
